---- MODULE Spec2Model ----
(***************************************************************************)
(* A model of the task list command interpreter of golang/list.go.        *)
(*                                                                         *)
(* A command line is represented by its fields, the sequence that          *)
(* strings.Split(cmdLine, " ") returns (never empty: the empty line has    *)
(* the one field "").  Split and Join on a single space are inverse to     *)
(* each other, so the line `quit` is the one-field sequence <<"quit">>.    *)
(*                                                                         *)
(* The receiver *TaskList is the record l: its fields projectTasks and     *)
(* lastID, the chunks the current step has written to l.out, whether the   *)
(* goroutine has panicked, and the history of the ids given to new tasks.  *)
(* Every method is an operator from l (and its arguments) to the l it      *)
(* leaves behind.                                                          *)
(***************************************************************************)
EXTENDS Integers, Sequences, FiniteSets, TLC

VARIABLES
    projectTasks,   \* l.projectTasks: project name -> sequence of tasks
    lastID,         \* l.lastID
    out,            \* the chunks written to l.out by the latest step of Run
    prompts,        \* the number of prompts written to l.out so far
    errorsChan,     \* the errors sent on errorsChan so far
    stdout,         \* what fmt.Printf has written to the process's stdout
    shutdownChan,   \* the values sent on shutdownChan so far
    pc,             \* where Run is: start, scan, returned, panicked
    currentDate,    \* the date of the process's clock
    lastLine,       \* history: the line scanner.Text() returned last
    linesRead,      \* history: the number of lines scanned so far
    assigned        \* history: the ids nextID has returned to addTask, in order

vars == <<projectTasks, lastID, out, prompts, errorsChan, stdout, shutdownChan,
          pc, currentDate, lastLine, linesRead, assigned>>

(***************************************************************************)
(* Bounds of the model.                                                    *)
(***************************************************************************)
MaxLines == 5
MaxID == 3

(***************************************************************************)
(* Constants of the program.                                               *)
(***************************************************************************)
Quit == "quit"
prompt == <<"> ">>
NoLine == <<>>
NoDeadline == <<>>

RECURSIVE Join(_, _)
\* strings.Join(elems, sep)
Join(elems, sep) ==
    IF elems = <<>> THEN ""
    ELSE IF Len(elems) = 1 THEN elems[1]
    ELSE elems[1] \o sep \o Join(Tail(elems), sep)

(***************************************************************************)
(* The value types Identifier, Deadline and Task.  Their source is no part *)
(* of list.go; they are modelled from sections 3 and 4.1 to 4.3 of the     *)
(* specification.                                                          *)
(***************************************************************************)

\* The numerals the model's input draws identifiers from.
Numerals == {ToString(n) : n \in 0..(MaxID + 1)}

\* NewIdentifier(idString): the value of a decimal numeral, or an error.
\* A string is a numeral exactly when it is the decimal text of a number.
NewIdentifier(idString) ==
    IF idString \in Numerals
    THEN [err |-> FALSE,
          id |-> CHOOSE n \in 0..(MaxID + 1) : ToString(n) = idString]
    ELSE [err |-> TRUE, id |-> 0]

\* A calendar date of the year the model's clock runs in.
DaysInMonth(m) ==
    IF m = 2 THEN 29 ELSE IF m \in {4, 6, 9, 11} THEN 30 ELSE 31

CalendarDates ==
    {dt \in [year : {2024}, month : 1..12, day : 1..31] :
        dt.day <= DaysInMonth(dt.month)}

Pad2(n) == IF n < 10 THEN "0" \o ToString(n) ELSE ToString(n)

\* Deadline rendering, layout YYYY-MM-DD.
FormatDate(dt) ==
    ToString(dt.year) \o "-" \o Pad2(dt.month) \o "-" \o Pad2(dt.day)

\* The date strings the model's input draws from: two dates, a date with a
\* month out of range and a word.
DateStrings == {"2024-01-31", "2024-02-01", "2024-13-01", "tomorrow"}

ParsedDates ==
    [s \in DateStrings |->
        {dt \in CalendarDates : FormatDate(dt) = s}]

\* NewDeadline(deadlineString): the date the string is the layout of, or an
\* error.
NewDeadline(deadlineString) ==
    IF deadlineString \in DateStrings /\ ParsedDates[deadlineString] # {}
    THEN [err |-> FALSE,
          deadline |-> <<CHOOSE dt \in ParsedDates[deadlineString] : TRUE>>]
    ELSE [err |-> TRUE, deadline |-> NoDeadline]

\* Days since the start of the year: the order of dates.
Ordinal(dt) == (dt.month - 1) * 31 + dt.day

\* NewTask(id, description, done): a task without a deadline.  The field
\* deadline is the empty sequence, or the one-element sequence of its date.
NewTask(id, description, done) ==
    [id |-> id, description |-> description, done |-> done,
     deadline |-> NoDeadline]

\* task.GetDeadline(): the text of the deadline, blank when there is none.
GetDeadline(task) ==
    IF task.deadline = NoDeadline THEN "" ELSE FormatDate(task.deadline[1])

\* task.IsPreviousToCurrentDate(): a deadline is set and is on or before
\* the clock's date.
IsPreviousToCurrentDate(task, now) ==
    /\ task.deadline # NoDeadline
    /\ Ordinal(task.deadline[1]) <= Ordinal(now)

(***************************************************************************)
(* Go slices and strings.                                                  *)
(***************************************************************************)

\* args[i] is in range (Go indexes from 0); out of range it panics.
InRange(args, i) == i < Len(args)

\* args[i]
At(args, i) == args[i + 1]

\* args[from:]
SliceFrom(args, from) == SubSeq(args, from + 1, Len(args))

\* The bytes of the strings that name projects in the model's input.
Bytes(s) ==
    CASE s = "ab" -> <<97, 98>>
      [] s = "b" -> <<98>>
      [] OTHER -> <<>>

RECURSIVE BytesLess(_, _)
\* The order of Go strings: bytewise lexicographic.
BytesLess(a, b) ==
    IF b = <<>> THEN FALSE
    ELSE IF a = <<>> THEN TRUE
    ELSE IF a[1] # b[1] THEN a[1] < b[1]
    ELSE BytesLess(Tail(a), Tail(b))

\* sort.StringSlice.Less
Less(x, y) == BytesLess(Bytes(x), Bytes(y))

RECURSIVE Insert(_, _)
\* x put into the sorted sequence before the first element it is less than.
Insert(sorted, x) ==
    IF sorted = <<>> THEN <<x>>
    ELSE IF Less(x, sorted[1]) THEN <<x>> \o sorted
    ELSE <<sorted[1]>> \o Insert(Tail(sorted), x)

\* Mutant of SortStrings: the names stay in the order the map gave them.
SortStrings_Unsorted(names) == names

RECURSIVE SortStrings(_)
\* sort.Sort(sort.StringSlice(names))
SortStrings(names) ==
    IF names = <<>> THEN <<>>
    ELSE Insert(SortStrings(Tail(names)), names[1])

\* The orders in which a range over the map may visit its keys.
IterationOrders(m) ==
    {iter \in [1..Cardinality(DOMAIN m) -> DOMAIN m] :
        \A i, j \in DOMAIN iter : i # j => iter[i] # iter[j]}

(***************************************************************************)
(* The methods of TaskList.                                                *)
(***************************************************************************)

nil == "<nil>"

\* fmt.Fprint, Fprintf, Fprintln on l.out: one chunk per call, with the
\* kind of line it is and its text.
Fprint(l, kind, text) ==
    [l EXCEPT !.out = Append(@, [kind |-> kind, text |-> text])]

\* An index out of range: the goroutine panics and the process dies.
Panic(l) == [l EXCEPT !.panicked = TRUE]

help(l) ==
    Fprint(l, "help",
           "Commands:\n  show\n  add project <project name>\n"
           \o "  add task <project name> <task description>\n"
           \o "  check <task ID>\n  uncheck <task ID>\n  \n")

\* Mutant of error: the message gives the word `command`, not the verb.
error_OmitsVerb(l, command) ==
    Fprint(l, "message", "Unknown command \"command\".\n")

error(l, command) ==
    Fprint(l, "message", "Unknown command \"" \o command \o "\".\n")

\* The format of a task line, the same in show and today.
TaskLine(task) ==
    "    [" \o (IF task.done THEN "X" ELSE " ") \o "] " \o ToString(task.id)
    \o ":" \o GetDeadline(task) \o " " \o task.description \o "\n"

RECURSIVE PrintTasks(_, _)
\* The inner loop of show: one line per task.
PrintTasks(l, tasks) ==
    IF tasks = <<>> THEN l
    ELSE PrintTasks(Fprint(l, "task", TaskLine(tasks[1])), Tail(tasks))

RECURSIVE PrintDueTasks_NoDeadline(_, _, _)
\* Mutant of PrintDueTasks: the line is printed in the format show had
\* before deadlines.
PrintDueTasks_NoDeadline(l, tasks, now) ==
    IF tasks = <<>> THEN l
    ELSE PrintDueTasks_NoDeadline(
            IF IsPreviousToCurrentDate(tasks[1], now)
            THEN Fprint(l, "task",
                        "    [" \o (IF tasks[1].done THEN "X" ELSE " ") \o "] "
                        \o ToString(tasks[1].id) \o ": "
                        \o tasks[1].description \o "\n")
            ELSE l,
            Tail(tasks), now)

RECURSIVE PrintDueTasks(_, _, _)
\* The inner loop of today: one line per task that is due.
PrintDueTasks(l, tasks, now) ==
    IF tasks = <<>> THEN l
    ELSE PrintDueTasks(
            IF IsPreviousToCurrentDate(tasks[1], now)
            THEN Fprint(l, "task", TaskLine(tasks[1]))
            ELSE l,
            Tail(tasks), now)

RECURSIVE TodayProjects(_, _, _)
TodayProjects(l, sortedProjects, now) ==
    IF sortedProjects = <<>> THEN l
    ELSE LET project == sortedProjects[1]
             tasks == l.projectTasks[project]
             l1 == Fprint(l, "project", project \o "\n")
             l2 == PrintDueTasks(l1, tasks, now)
             l3 == Fprint(l2, "blank", "\n")
         IN  TodayProjects(l3, Tail(sortedProjects), now)

today(l, iter, now) == TodayProjects(l, SortStrings(iter), now)

RECURSIVE ShowProjects(_, _)
ShowProjects(l, sortedProjects) ==
    IF sortedProjects = <<>> THEN l
    ELSE LET project == sortedProjects[1]
             tasks == l.projectTasks[project]
             l1 == Fprint(l, "project", project \o "\n")
             l2 == PrintTasks(l1, tasks)
             l3 == Fprint(l2, "blank", "\n")
         IN  ShowProjects(l3, Tail(sortedProjects))

show(l, iter) == ShowProjects(l, SortStrings(iter))

\* Mutant of nextID: the counter is returned as it is.
nextID_NoIncrement(l) == l

\* Mutant of nextID: the counter is advanced twice.
nextID_ByTwo(l) == [l EXCEPT !.lastID = @ + 2]

nextID(l) == [l EXCEPT !.lastID = @ + 1]

\* Mutant of addProject: the counter starts again with the project.
addProject_ResetsCounter(l, name) ==
    [l EXCEPT !.projectTasks =
                [p \in DOMAIN @ \cup {name} |-> IF p = name THEN <<>> ELSE @[p]],
              !.lastID = 0]

\* Mutant of addProject: the registry is made anew with the one project.
addProject_NewRegistry(l, name) ==
    [l EXCEPT !.projectTasks = [p \in {name} |-> <<>>]]

addProject(l, name) ==
    [l EXCEPT !.projectTasks =
        [p \in DOMAIN @ \cup {name} |-> IF p = name THEN <<>> ELSE @[p]]]

\* Mutant of addTask: the id is allocated before the project is looked up.
addTask_AllocatesFirst(l, projectName, description) ==
    LET l1 == nextID(l)
    IN  IF projectName \notin DOMAIN l.projectTasks
        THEN Fprint(l1, "message",
                    "Could not find a project with the name \"" \o projectName
                    \o "\".\n")
        ELSE [l1 EXCEPT !.projectTasks[projectName] =
                          Append(@, NewTask(l1.lastID, description, FALSE)),
                        !.assigned = Append(@, l1.lastID)]

\* Mutant of addTask: the new task is put in front of the project's tasks.
addTask_Prepends(l, projectName, description) ==
    IF projectName \notin DOMAIN l.projectTasks
    THEN Fprint(l, "message",
                "Could not find a project with the name \"" \o projectName
                \o "\".\n")
    ELSE LET tasks == l.projectTasks[projectName]
             l1 == nextID(l)
         IN  [l1 EXCEPT !.projectTasks[projectName] =
                     <<NewTask(l1.lastID, description, FALSE)>> \o tasks,
                 !.assigned = Append(@, l1.lastID)]

addTask(l, projectName, description) ==
    IF projectName \notin DOMAIN l.projectTasks
    THEN Fprint(l, "message",
                "Could not find a project with the name \"" \o projectName
                \o "\".\n")
    ELSE LET tasks == l.projectTasks[projectName]
             l1 == nextID(l)
         IN  [l1 EXCEPT !.projectTasks[projectName] =
                     Append(tasks, NewTask(l1.lastID, description, FALSE)),
                 !.assigned = Append(@, l1.lastID)]

add(l, args) ==
    IF ~InRange(args, 1) THEN Panic(l)
    ELSE LET projectName == At(args, 1)
         IN  IF At(args, 0) = "project" THEN addProject(l, projectName)
             ELSE IF At(args, 0) = "task"
             THEN addTask(l, projectName, Join(SliceFrom(args, 2), " "))
             ELSE l

\* The places (project, index) of the tasks with this id, in the order the
\* two loops of getTaskBy visit them.
RECURSIVE Matches(_, _, _)
Matches(l, iter, id) ==
    IF iter = <<>> THEN <<>>
    ELSE LET tasks == l.projectTasks[iter[1]]
             here == SelectSeq([i \in 1..Len(tasks) |->
                                   [project |-> iter[1], index |-> i]],
                               LAMBDA m : tasks[m.index].id = id)
         IN  here \o Matches(l, Tail(iter), id)

\* Mutant of getTaskBy: an id that names no task gets the first task of the
\* registry, when there is one.
getTaskBy_FallsBackToFirst(l, idString, iter) ==
    LET parsed == NewIdentifier(idString)
        found == Matches(l, iter, parsed.id)
        any == IF iter = <<>> THEN <<>>
               ELSE IF l.projectTasks[iter[1]] = <<>> THEN <<>>
               ELSE <<[project |-> iter[1], index |-> 1]>>
    IN  IF parsed.err
        THEN [l |-> Fprint(l, "message",
                           "Invalid ID \"" \o idString \o "\".\n"),
              err |-> "invalid identifier", task |-> <<>>]
        ELSE IF found # <<>>
        THEN [l |-> l, err |-> nil, task |-> <<found[1]>>]
        ELSE IF any # <<>>
        THEN [l |-> l, err |-> nil, task |-> any]
        ELSE [l |-> Fprint(l, "message",
                           "Task with ID \"" \o ToString(parsed.id)
                           \o "\" not found.\n"),
              err |-> "Task not found", task |-> <<>>]

\* getTaskBy(idString): the l it leaves, its error and the place of the
\* task it returns a pointer to.
getTaskBy(l, idString, iter) ==
    LET parsed == NewIdentifier(idString)
        found == Matches(l, iter, parsed.id)
    IN  IF parsed.err
        THEN [l |-> Fprint(l, "message",
                           "Invalid ID \"" \o idString \o "\".\n"),
              err |-> "invalid identifier", task |-> <<>>]
        ELSE IF found # <<>>
        THEN [l |-> l, err |-> nil, task |-> <<found[1]>>]
        ELSE [l |-> Fprint(l, "message",
                           "Task with ID \"" \o ToString(parsed.id)
                           \o "\" not found.\n"),
              err |-> "Task not found", task |-> <<>>]

\* Mutant of setDone: the flag is flipped.
setDone_Toggles(l, idString, done, iter) ==
    LET r == getTaskBy(l, idString, iter)
    IN  IF r.err # nil THEN r.l
        ELSE [r.l EXCEPT
                !.projectTasks[r.task[1].project][r.task[1].index].done = ~@]

setDone(l, idString, done, iter) ==
    LET r == getTaskBy(l, idString, iter)
    IN  IF r.err # nil THEN r.l
        ELSE [r.l EXCEPT
                !.projectTasks[r.task[1].project][r.task[1].index].done = done]

check(l, idString, iter) == setDone(l, idString, TRUE, iter)

uncheck(l, idString, iter) == setDone(l, idString, FALSE, iter)

\* Mutant of deadline: the task is made anew with the deadline, not done.
deadline_ResetsDone(l, id, deadlineString, iter) ==
    LET d == NewDeadline(deadlineString)
        r == getTaskBy(l, id, iter)
    IN  IF d.err THEN l
        ELSE IF r.err # nil THEN r.l
        ELSE [r.l EXCEPT
                !.projectTasks[r.task[1].project][r.task[1].index] =
                    [@ EXCEPT !.deadline = d.deadline, !.done = FALSE]]

\* Mutant of deadline: the error of NewDeadline is not looked at.
deadline_IgnoresDateError(l, id, deadlineString, iter) ==
    LET d == NewDeadline(deadlineString)
        r == getTaskBy(l, id, iter)
    IN  IF r.err # nil THEN r.l
        ELSE [r.l EXCEPT
                !.projectTasks[r.task[1].project][r.task[1].index].deadline =
                    d.deadline]

deadline(l, id, deadlineString, iter) ==
    LET d == NewDeadline(deadlineString)
        r == getTaskBy(l, id, iter)
    IN  IF d.err THEN l
        ELSE IF r.err # nil THEN r.l
        ELSE [r.l EXCEPT
                !.projectTasks[r.task[1].project][r.task[1].index].deadline =
                    d.deadline]

\* execute(cmdLine): the l it leaves and the error it returns.
execute(l, args, iter, now) ==
    LET command == At(args, 0)
        ok(l1) == [l |-> l1, err |-> nil]
    IN  CASE command = "show" -> ok(show(l, iter))
          [] command = "add" ->
                IF Len(args) < 2
                THEN [l |-> l,
                      err |-> "could not execute add, it requires at least 2 parameters"]
                ELSE ok(add(l, SliceFrom(args, 1)))
          [] command = "check" ->
                IF ~InRange(args, 1) THEN ok(Panic(l))
                ELSE ok(check(l, At(args, 1), iter))
          [] command = "uncheck" ->
                IF ~InRange(args, 1) THEN ok(Panic(l))
                ELSE ok(uncheck(l, At(args, 1), iter))
          [] command = "help" -> ok(help(l))
          [] command = "deadline" ->
                IF Len(args) < 2
                THEN [l |-> l,
                      err |-> "could not execute deadline. Usage: deadline <taskId> <dateAsString>"]
                ELSE IF ~InRange(args, 2) THEN ok(Panic(l))
                ELSE ok(deadline(l, At(args, 1), At(args, 2), iter))
          [] command = "today" -> ok(today(l, iter, now))
          [] OTHER -> ok(error(l, command))

(***************************************************************************)
(* The input the model draws lines from.                                   *)
(***************************************************************************)

ProjectNames == {"ab", "b"}

IdStrings == {ToString(n) : n \in 0..MaxID} \cup {"x"}

Lines ==
    {<<Quit>>, <<Quit, "now">>, <<"Quit">>, <<"">>, <<"frobnicate">>,
     <<"show">>, <<"today">>, <<"help">>,
     <<"add">>, <<"add", "project">>, <<"add", "task">>,
     <<"add", "list", "ab">>,
     <<"check">>, <<"uncheck">>,
     <<"deadline">>, <<"deadline", "1">>,
     <<"deadline", "1", "2024-02-01", "please">>}
    \cup {<<"add", "project", p>> : p \in ProjectNames}
    \cup {<<"add", "task", p>> : p \in ProjectNames}
    \cup {<<"add", "task", p, "buy", "milk">> : p \in ProjectNames}
    \cup {<<"check", i>> : i \in IdStrings}
    \cup {<<"uncheck", i>> : i \in IdStrings}
    \cup {<<"deadline", i, d>> : i \in IdStrings, d \in DateStrings}

\* The dates the clock shows during a session.
Days ==
    <<[year |-> 2024, month |-> 1, day |-> 31],
      [year |-> 2024, month |-> 2, day |-> 1]>>

(***************************************************************************)
(* NewTaskList and Run.                                                    *)
(***************************************************************************)

\* NewTaskList(in, out), before Run is called.
Init ==
    /\ projectTasks = [p \in {} |-> <<>>]
    /\ lastID = 0
    /\ out = <<>>
    /\ prompts = 0
    /\ errorsChan = <<>>
    /\ stdout = <<>>
    /\ shutdownChan = <<>>
    /\ pc = "start"
    /\ currentDate = Days[1]
    /\ lastLine = NoLine
    /\ linesRead = 0
    /\ assigned = <<>>

\* The receiver as a step of Run finds it.
Receiver ==
    [projectTasks |-> projectTasks, lastID |-> lastID, out |-> <<>>,
     panicked |-> FALSE, assigned |-> assigned]

\* What execute leaves of the receiver's fields.
Store(l) ==
    /\ projectTasks' = l.projectTasks
    /\ lastID' = l.lastID
    /\ assigned' = l.assigned

\* Mutant of IsQuit: the line starts with the word quit.
IsQuit_FirstField(cmdLine) == cmdLine[1] = Quit

\* cmdLine == Quit
IsQuit(cmdLine) == cmdLine = <<Quit>>

\* Run, to its loop: the first prompt.
RunStart ==
    /\ pc = "start"
    /\ out' = <<[kind |-> "prompt", text |-> prompt[1]]>>
    /\ prompts' = prompts + 1
    /\ pc' = "scan"
    /\ UNCHANGED <<projectTasks, lastID, errorsChan, stdout, shutdownChan,
                   currentDate, lastLine, linesRead, assigned>>

\* One turn of the loop on the line `quit`.
RunQuit ==
    /\ pc = "scan"
    /\ linesRead < MaxLines
    /\ \E cmdLine \in Lines :
          /\ IsQuit(cmdLine)
          /\ lastLine' = cmdLine
    /\ linesRead' = linesRead + 1
    /\ shutdownChan' = Append(shutdownChan, TRUE)
    /\ out' = <<>>
    /\ pc' = "returned"
    /\ UNCHANGED <<projectTasks, lastID, prompts, errorsChan, stdout,
                   currentDate, assigned>>

\* One turn of the loop on a line that execute returns nil for.
RunLine ==
    /\ pc = "scan"
    /\ linesRead < MaxLines
    /\ \E cmdLine \in Lines, iter \in IterationOrders(projectTasks) :
          LET r == execute(Receiver, cmdLine, iter, currentDate)
          IN  /\ ~IsQuit(cmdLine)
              /\ ~r.l.panicked
              /\ r.err = nil
              /\ r.l.lastID <= MaxID
              /\ lastLine' = cmdLine
              /\ Store(r.l)
              /\ out' = Append(r.l.out, [kind |-> "prompt", text |-> prompt[1]])
    /\ linesRead' = linesRead + 1
    /\ prompts' = prompts + 1
    /\ UNCHANGED <<errorsChan, stdout, shutdownChan, pc, currentDate>>

\* One turn of the loop on a line that execute returns an error for.
RunLineError ==
    /\ pc = "scan"
    /\ linesRead < MaxLines
    /\ \E cmdLine \in Lines, iter \in IterationOrders(projectTasks) :
          LET r == execute(Receiver, cmdLine, iter, currentDate)
          IN  /\ ~IsQuit(cmdLine)
              /\ ~r.l.panicked
              /\ r.err # nil
              /\ lastLine' = cmdLine
              /\ Store(r.l)
              /\ errorsChan' = Append(errorsChan, r.err)
              /\ stdout' = Append(stdout, "program exited, " \o r.err)
              /\ out' = Append(r.l.out, [kind |-> "prompt", text |-> prompt[1]])
    /\ linesRead' = linesRead + 1
    /\ prompts' = prompts + 1
    /\ UNCHANGED <<shutdownChan, pc, currentDate>>

\* One turn of the loop on a line that execute panics on: the panic is not
\* recovered, Run never gets to its prompt.
RunPanic ==
    /\ pc = "scan"
    /\ linesRead < MaxLines
    /\ \E cmdLine \in Lines, iter \in IterationOrders(projectTasks) :
          LET r == execute(Receiver, cmdLine, iter, currentDate)
          IN  /\ ~IsQuit(cmdLine)
              /\ r.l.panicked
              /\ lastLine' = cmdLine
              /\ Store(r.l)
              /\ out' = r.l.out
    /\ linesRead' = linesRead + 1
    /\ pc' = "panicked"
    /\ UNCHANGED <<prompts, errorsChan, stdout, shutdownChan, currentDate>>

\* scanner.Scan() returns false: the input has no further line.
RunEOF ==
    /\ pc = "scan"
    /\ out' = <<>>
    /\ pc' = "returned"
    /\ UNCHANGED <<projectTasks, lastID, prompts, errorsChan, stdout,
                   shutdownChan, currentDate, lastLine, linesRead, assigned>>

\* Midnight: the process's clock shows the next day.
Midnight ==
    /\ pc \in {"start", "scan"}
    /\ currentDate = Days[1]
    /\ currentDate' = Days[2]
    /\ UNCHANGED <<projectTasks, lastID, out, prompts, errorsChan, stdout,
                   shutdownChan, pc, lastLine, linesRead, assigned>>

Next ==
    \/ RunStart
    \/ RunQuit
    \/ RunLine
    \/ RunLineError
    \/ RunPanic
    \/ RunEOF
    \/ Midnight

Spec == Init /\ [][Next]_vars

TypeOK ==
    /\ lastID \in 0..MaxID
    /\ pc \in {"start", "scan", "returned", "panicked"}
    /\ linesRead \in 0..MaxLines
    /\ prompts \in 0..(MaxLines + 1)

(***************************************************************************)
(* Vocabulary of the properties.                                           *)
(***************************************************************************)

\* This step of Run has read a line (the line is lastLine').
ReadsLine == linesRead' = linesRead + 1

\* The places (project, index) of the registry pt.
Places(pt) == UNION {{<<p, i>> : i \in DOMAIN pt[p]} : p \in DOMAIN pt}

\* The ids of the tasks in the registry pt.
TaskIds(pt) == {pt[pl[1]][pl[2]].id : pl \in Places(pt)}

\* The number of tasks in the registry pt.
TaskCount(pt) == Cardinality(Places(pt))

\* The line is `add task <project> ...`.
IsAddTask(line) ==
    /\ Len(line) >= 3
    /\ line[1] = "add"
    /\ line[2] = "task"

\* The latest step wrote a message starting with this text to l.out.
Wrote(kind, text) ==
    \E i \in DOMAIN out :
        /\ out[i].kind = kind
        /\ out[i].text = text

(***************************************************************************)
(* C1: no input line is fatal: whatever line other than `quit` is read,    *)
(* executing it does not crash the session.                                *)
(* The code panics on `check`, `uncheck`, `add project`, `add task` and   *)
(* `deadline <id>` (an index out of range): TLC finds this violated.      *)
(***************************************************************************)
C1_NoLineIsFatal == pc # "panicked"

(***************************************************************************)
(* C2: a line whose verb is `deadline` and that has not exactly 2 trailing *)
(* fields puts a usage error on the error channel and changes neither the  *)
(* registry nor the ID counter.                                            *)
(* The code tests len(args) < 2 only: with 1 trailing field it panics,     *)
(* with 3 it sets the deadline.  TLC finds this violated.                  *)
(***************************************************************************)
C2_DeadlineNeedsTwoArguments ==
    [][(/\ ReadsLine
        /\ lastLine'[1] = "deadline"
        /\ Len(lastLine') # 3)
       => (/\ pc' = "scan"
           /\ Len(errorsChan') = Len(errorsChan) + 1
           /\ projectTasks' = projectTasks
           /\ lastID' = lastID)]_vars

(***************************************************************************)
(* C3: `add task <project> <description>` naming a project that is not in  *)
(* the registry leaves the registry and the ID counter unchanged.          *)
(***************************************************************************)
C3_AddTaskUnknownProjectChangesNothing ==
    [][(/\ ReadsLine
        /\ IsAddTask(lastLine')
        /\ lastLine'[3] \notin DOMAIN projectTasks)
       => (/\ projectTasks' = projectTasks
           /\ lastID' = lastID
           /\ assigned' = assigned)]_vars

\* C3, witness: after a task got id 1, `add task` on an unknown project has
\* printed its message, and the project is still unknown.
C3_Witness ==
    /\ pc = "scan"
    /\ lastID = 1
    /\ IsAddTask(lastLine)
    /\ lastLine[3] \notin DOMAIN projectTasks
    /\ Wrote("message", "Could not find a project with the name \""
                        \o lastLine[3] \o "\".\n")

(***************************************************************************)
(* C4: the ids given to new tasks are strictly increasing in the order of  *)
(* assignment, so none is given twice, also not after a project was        *)
(* created again; every id in the registry is one of them.                 *)
(***************************************************************************)
C4_IdsStrictlyIncreasing ==
    /\ \A i, j \in DOMAIN assigned : i < j => assigned[i] < assigned[j]
    /\ TaskIds(projectTasks) \subseteq {assigned[i] : i \in DOMAIN assigned}

\* C4, witness: two ids were given, the first to a task of a project that
\* was then created again, the second after that.
C4_Witness ==
    /\ Len(assigned) = 2
    /\ TaskIds(projectTasks) = {assigned[2]}
    /\ IsAddTask(lastLine)

(***************************************************************************)
(* C5: no two tasks of the registry have the same id, across all projects: *)
(* a lookup by id has at most one match, whatever the order in which the   *)
(* map is visited.                                                         *)
(***************************************************************************)
C5_IdsUniqueAcrossRegistry ==
    /\ \A a, b \in Places(projectTasks) :
          projectTasks[a[1]][a[2]].id = projectTasks[b[1]][b[2]].id => a = b
    /\ \A iter \in IterationOrders(projectTasks), id \in 0..MaxID :
          Len(Matches(Receiver, iter, id)) <= 1

\* C5, witness: two projects hold tasks, three tasks in all.
C5_Witness ==
    /\ \A p \in ProjectNames :
          p \in DOMAIN projectTasks /\ projectTasks[p] # <<>>
    /\ TaskCount(projectTasks) = 3

(***************************************************************************)
(* C6: a task is never destroyed: a task that is in the registry is in the *)
(* registry, in the same project, after every step.                        *)
(* `add project` on the name of a project that holds tasks replaces its    *)
(* task sequence by the empty one: TLC finds this violated.                *)
(***************************************************************************)
C6_TaskNeverDestroyed ==
    [][\A pl \in Places(projectTasks) :
          /\ pl[1] \in DOMAIN projectTasks'
          /\ \E j \in DOMAIN projectTasks'[pl[1]] :
                projectTasks'[pl[1]][j].id = projectTasks[pl[1]][pl[2]].id]_vars

(***************************************************************************)
(* C7: Run returns only when the line `quit` has been read, not when the   *)
(* input runs out of lines.                                                *)
(* The loop is `for scanner.Scan()`: at the end of the input Run returns   *)
(* without a `quit` line.  TLC finds this violated.                        *)
(***************************************************************************)
C7_ReturnsOnlyOnQuit == pc = "returned" => lastLine = <<Quit>>

(***************************************************************************)
(* C8: when the exact line `quit` is read, Run sends one notification on   *)
(* the shutdown channel, writes nothing to the output sink, leaves the     *)
(* registry and the counter as they are and returns, and no step follows;  *)
(* no other line sends a notification, so there is at most one, and only   *)
(* after `quit`.                                                           *)
(***************************************************************************)
C8_QuitSentinel ==
    /\ [](/\ Len(shutdownChan) <= 1
          /\ shutdownChan # <<>> => (lastLine = <<Quit>> /\ pc = "returned"))
    /\ [][(ReadsLine /\ lastLine' = <<Quit>>)
           => (/\ shutdownChan' = Append(shutdownChan, TRUE)
               /\ out' = <<>>
               /\ prompts' = prompts
               /\ projectTasks' = projectTasks
               /\ lastID' = lastID
               /\ pc' = "returned")]_vars
    /\ [][(ReadsLine /\ lastLine' # <<Quit>>)
           => shutdownChan' = shutdownChan]_vars
    /\ [][pc # "returned"]_vars

\* C8, witness: `quit` was read in a session that holds a task; the
\* notification is sent, nothing is written, Run has returned.
C8_Witness ==
    /\ pc = "returned"
    /\ lastLine = <<Quit>>
    /\ shutdownChan = <<TRUE>>
    /\ out = <<>>
    /\ lastID > 0

\* The task of the registry pt with this id.
TaskWithId(pt, id) ==
    LET pl == CHOOSE pl \in Places(pt) : pt[pl[1]][pl[2]].id = id
    IN  pt[pl[1]][pl[2]]

\* The two lines are this pair of verbs on the same id string.
VerbPair(before, after, first, second) ==
    /\ Len(before) = 2
    /\ Len(after) = 2
    /\ before[1] = first
    /\ after[1] = second
    /\ before[2] = after[2]

(***************************************************************************)
(* C9: on the id of a task in the registry, uncheck after check leaves     *)
(* done = false, check after check leaves done = true and changes nothing, *)
(* uncheck after uncheck leaves done = false and changes nothing.  Stated  *)
(* of the methods applied to every reachable registry, and of every two    *)
(* lines that follow each other in a session.                              *)
(***************************************************************************)
C9_CheckUncheck ==
    /\ [](\A n \in TaskIds(projectTasks),
             i1 \in IterationOrders(projectTasks),
             i2 \in IterationOrders(projectTasks) :
             LET c == check(Receiver, ToString(n), i1)
                 u == uncheck(Receiver, ToString(n), i1)
             IN  /\ ~TaskWithId(uncheck(c, ToString(n), i2).projectTasks, n).done
                 /\ TaskWithId(c.projectTasks, n).done
                 /\ check(c, ToString(n), i2) = c
                 /\ ~TaskWithId(u.projectTasks, n).done
                 /\ uncheck(u, ToString(n), i2) = u)
    /\ [][(/\ ReadsLine
            /\ Len(lastLine') = 2
            /\ ~NewIdentifier(lastLine'[2]).err
            /\ NewIdentifier(lastLine'[2]).id \in TaskIds(projectTasks))
           => LET n == NewIdentifier(lastLine'[2]).id
              IN  /\ VerbPair(lastLine, lastLine', "check", "uncheck")
                        => ~TaskWithId(projectTasks', n).done
                  /\ VerbPair(lastLine, lastLine', "check", "check")
                        => (/\ TaskWithId(projectTasks', n).done
                            /\ projectTasks' = projectTasks)
                  /\ VerbPair(lastLine, lastLine', "uncheck", "uncheck")
                        => (/\ ~TaskWithId(projectTasks', n).done
                            /\ projectTasks' = projectTasks)]_vars

\* C9, witness: `check 1` has marked task 1, and the session can read the
\* line that follows it.
C9_Witness ==
    /\ pc = "scan"
    /\ linesRead < MaxLines
    /\ lastLine = <<"check", "1">>
    /\ 1 \in TaskIds(projectTasks)
    /\ TaskWithId(projectTasks, 1).done

\* The project headers of an output.
Headers(o) == SelectSeq(o, LAMBDA c : c.kind = "project")

\* The index in the output o of its k-th project header.
HeaderIndex(o, k) ==
    CHOOSE i \in DOMAIN o :
        /\ o[i].kind = "project"
        /\ Len(Headers(SubSeq(o, 1, i))) = k

\* The task lines the output o prints under its k-th project header.
Section(o, k) ==
    LET i == HeaderIndex(o, k)
        n == CHOOSE n \in 0..(Len(o) - i) :
                /\ \A j \in 1..n : o[i + j].kind = "task"
                /\ (i + n + 1 > Len(o) \/ o[i + n + 1].kind # "task")
    IN  SubSeq(o, i + 1, i + n)

RECURSIVE IsSubsequence(_, _)
\* a is b with some elements left out.
IsSubsequence(a, b) ==
    IF a = <<>> THEN TRUE
    ELSE IF b = <<>> THEN FALSE
    ELSE IF a[1] = b[1] THEN IsSubsequence(Tail(a), Tail(b))
    ELSE IsSubsequence(a, Tail(b))

(***************************************************************************)
(* C10: in every reachable state today prints the project headers show     *)
(* prints, in the same order, and under each project a subsequence of the  *)
(* task lines show prints under it.                                        *)
(***************************************************************************)
C10_TodayFiltersShow ==
    \A i1 \in IterationOrders(projectTasks),
       i2 \in IterationOrders(projectTasks) :
       LET s == show(Receiver, i1).out
           t == today(Receiver, i2, currentDate).out
       IN  /\ Headers(t) = Headers(s)
           /\ \A k \in 1..Len(Headers(s)) :
                 IsSubsequence(Section(t, k), Section(s, k))

\* C10, witness: `today` has just printed, under some project, at least one
\* task line and fewer task lines than show prints there.
C10_Witness ==
    /\ pc = "scan"
    /\ lastLine = <<"today">>
    /\ \E i \in IterationOrders(projectTasks) :
          LET s == show(Receiver, i).out
          IN  \E k \in 1..Len(Headers(out)) :
                /\ Section(out, k) # <<>>
                /\ Len(Section(out, k)) < Len(Section(s, k))

(***************************************************************************)
(* C11: one prompt is written before the first line is read and one after  *)
(* every line other than `quit`: once Run has started, the number of       *)
(* prompts is the number of lines read that are not `quit`, plus one.      *)
(* A line that execute panics on (C1) is followed by no prompt: TLC finds  *)
(* this violated.                                                          *)
(***************************************************************************)
C11_PromptAfterEveryLine ==
    pc # "start" =>
        prompts = linesRead + 1 - (IF lastLine = <<Quit>> THEN 1 ELSE 0)

\* The line is `check <id>` or `uncheck <id>`.
IsCheckOrUncheck(line) ==
    /\ Len(line) >= 2
    /\ line[1] \in {"check", "uncheck"}

\* The message getTaskBy prints for an id string that names no task of pt,
\* the empty sequence when it names one.
NoTaskMessage(pt, idString) ==
    IF NewIdentifier(idString).err
    THEN <<[kind |-> "message",
            text |-> "Invalid ID \"" \o idString \o "\".\n"]>>
    ELSE IF NewIdentifier(idString).id \notin TaskIds(pt)
    THEN <<[kind |-> "message",
            text |-> "Task with ID \"" \o ToString(NewIdentifier(idString).id)
                     \o "\" not found.\n"]>>
    ELSE <<>>

(***************************************************************************)
(* C12: `check <id>` and `uncheck <id>` with a string that is no numeral,  *)
(* or with the numeral of no task in the registry, write their message     *)
(* (and the prompt) to the output sink and change nothing: not the         *)
(* registry, not the ID counter.                                           *)
(***************************************************************************)
C12_CheckUnknownIdChangesNothing ==
    [][(/\ ReadsLine
        /\ IsCheckOrUncheck(lastLine')
        /\ NoTaskMessage(projectTasks, lastLine'[2]) # <<>>)
       => (/\ projectTasks' = projectTasks
           /\ lastID' = lastID
           /\ pc' = "scan"
           /\ out' = NoTaskMessage(projectTasks, lastLine'[2])
                        \o <<[kind |-> "prompt", text |-> prompt[1]]>>)]_vars

\* C12, witness: the registry holds a task that is done, and `uncheck` on an
\* id string that names no task has printed its message.
C12_Witness ==
    /\ pc = "scan"
    /\ IsCheckOrUncheck(lastLine)
    /\ lastLine[1] = "uncheck"
    /\ NoTaskMessage(projectTasks, lastLine[2]) # <<>>
    /\ Wrote("message", NoTaskMessage(projectTasks, lastLine[2])[1].text)
    /\ \E n \in TaskIds(projectTasks) : TaskWithId(projectTasks, n).done

\* The line is `add project <name> ...`.
IsAddProject(line) ==
    /\ Len(line) >= 3
    /\ line[1] = "add"
    /\ line[2] = "project"

(***************************************************************************)
(* C13: `add project <name>` leaves the name in the registry with the      *)
(* empty task sequence, whether or not the name was there; the other       *)
(* projects, their task sequences and the ID counter are unchanged.        *)
(***************************************************************************)
C13_AddProjectFrame ==
    [][(ReadsLine /\ IsAddProject(lastLine'))
       => (/\ DOMAIN projectTasks' = DOMAIN projectTasks \cup {lastLine'[3]}
           /\ projectTasks'[lastLine'[3]] = <<>>
           /\ \A p \in DOMAIN projectTasks \ {lastLine'[3]} :
                 projectTasks'[p] = projectTasks[p]
           /\ lastID' = lastID
           /\ assigned' = assigned)]_vars

\* C13, witness: `add project` has emptied a project that held a task,
\* beside a project that still holds its task.
C13_Witness ==
    /\ pc = "scan"
    /\ IsAddProject(lastLine)
    /\ projectTasks[lastLine[3]] = <<>>
    /\ TaskCount(projectTasks) = 1
    /\ lastID = 2

\* The line is `add` or `deadline` with fewer arguments than the command
\* takes: a sub-command and a name for add, an id and a date for deadline.
HasTooFewArguments(line) ==
    /\ line[1] \in {"add", "deadline"}
    /\ Len(line) < 3

(***************************************************************************)
(* C14: a line puts an error on the error channel exactly when it is `add` *)
(* or `deadline` with too few arguments, and then one error; every other   *)
(* line puts nothing on it.                                                *)
(* `add project`, `add task` and `deadline <id>` have too few arguments   *)
(* and panic instead (C1, C2): TLC finds this violated.                    *)
(***************************************************************************)
C14_OnlyUsageErrorsOnErrorChannel ==
    [][ReadsLine =>
        IF lastLine' # <<Quit>> /\ HasTooFewArguments(lastLine')
        THEN /\ Len(errorsChan') = Len(errorsChan) + 1
             /\ SubSeq(errorsChan', 1, Len(errorsChan)) = errorsChan
        ELSE errorsChan' = errorsChan]_vars

(***************************************************************************)
(* C15: `add task <project> <description>` on a project of the registry    *)
(* advances the ID counter by one and appends one task to the end of that  *)
(* project's sequence: its id is the new counter value, its description    *)
(* the rest of the line, it is not done and has no deadline; no other      *)
(* project and no existing task changes.  The first task of a session gets *)
(* id 1.                                                                   *)
(***************************************************************************)
C15_AddTaskAppendsOne ==
    /\ [](assigned # <<>> => assigned[1] = 1)
    /\ [][(/\ ReadsLine
            /\ IsAddTask(lastLine')
            /\ lastLine'[3] \in DOMAIN projectTasks)
           => (/\ lastID' = lastID + 1
               /\ assigned' = Append(assigned, lastID')
               /\ projectTasks' =
                     [projectTasks EXCEPT ![lastLine'[3]] =
                        Append(@, [id |-> lastID',
                                   description |->
                                       Join(SubSeq(lastLine', 4, Len(lastLine')),
                                            " "),
                                   done |-> FALSE,
                                   deadline |-> <<>>])])]_vars

\* C15, witness: `add task` has appended a described task with id 3 behind
\* another task of its project, beside a second project that holds a task.
C15_Witness ==
    /\ pc = "scan"
    /\ IsAddTask(lastLine)
    /\ lastLine[3] \in DOMAIN projectTasks
    /\ lastID = 3
    /\ Len(projectTasks[lastLine[3]]) = 2
    /\ projectTasks[lastLine[3]][2] =
          [id |-> 3, description |-> "buy milk", done |-> FALSE,
           deadline |-> <<>>]
    /\ TaskCount(projectTasks) = 3

\* The registries pt and qt differ at most in this field of the task with
\* this id: same projects, same sequences, every other field of every task
\* the same.
SameButField(pt, qt, id, field) ==
    /\ DOMAIN qt = DOMAIN pt
    /\ \A p \in DOMAIN pt :
          /\ Len(qt[p]) = Len(pt[p])
          /\ \A i \in DOMAIN pt[p] :
                \A f \in {"id", "description", "done", "deadline"} :
                    (pt[p][i].id # id \/ f # field) => qt[p][i][f] = pt[p][i][f]

\* The line is `deadline <id> <date> ...`.
IsDeadline(line) ==
    /\ Len(line) >= 3
    /\ line[1] = "deadline"

(***************************************************************************)
(* C16: `check <id>`, `uncheck <id>` and `deadline <id> <date>` on the id  *)
(* of a task in the registry change at most one attribute of that one      *)
(* task, the done flag for check and uncheck, the deadline for deadline:   *)
(* its id and description, its project and position, every other task, the *)
(* set of projects and the ID counter are unchanged.                       *)
(***************************************************************************)
C16_OneAttributeOfOneTask ==
    [][(/\ ReadsLine
        /\ IsCheckOrUncheck(lastLine') \/ IsDeadline(lastLine')
        /\ ~NewIdentifier(lastLine'[2]).err
        /\ NewIdentifier(lastLine'[2]).id \in TaskIds(projectTasks))
       => (/\ SameButField(projectTasks, projectTasks',
                           NewIdentifier(lastLine'[2]).id,
                           IF IsDeadline(lastLine') THEN "deadline" ELSE "done")
           /\ lastID' = lastID
           /\ assigned' = assigned)]_vars

\* C16, witness: `deadline 1 <date>` has set the deadline of task 1, which
\* is done, beside a second task.
C16_Witness ==
    /\ pc = "scan"
    /\ IsDeadline(lastLine)
    /\ lastLine[2] = "1"
    /\ 1 \in TaskIds(projectTasks)
    /\ TaskWithId(projectTasks, 1).done
    /\ TaskWithId(projectTasks, 1).deadline # <<>>
    /\ TaskCount(projectTasks) = 2

(***************************************************************************)
(* C17: `deadline <id> <date>` with a well-formed date and the id of a     *)
(* task in the registry sets that task's deadline to the date, which then  *)
(* renders as the string typed, whatever deadline the task had; with a     *)
(* malformed date, or an id that is malformed or names no task, the        *)
(* registry is unchanged.                                                  *)
(***************************************************************************)
C17_DeadlineValidatesFirst ==
    [][(/\ ReadsLine
        /\ IsDeadline(lastLine')
        /\ Len(lastLine') = 3)
       => LET parsed == NewIdentifier(lastLine'[2])
              d == NewDeadline(lastLine'[3])
          IN  IF /\ ~d.err
                 /\ ~parsed.err
                 /\ parsed.id \in TaskIds(projectTasks)
              THEN /\ TaskWithId(projectTasks', parsed.id).deadline = d.deadline
                   /\ GetDeadline(TaskWithId(projectTasks', parsed.id))
                         = lastLine'[3]
              ELSE projectTasks' = projectTasks]_vars

\* C17, witness: `deadline` with a malformed date has been read for a task
\* that keeps the deadline it had.
C17_Witness ==
    /\ pc = "scan"
    /\ IsDeadline(lastLine)
    /\ Len(lastLine) = 3
    /\ NewDeadline(lastLine[3]).err
    /\ ~NewIdentifier(lastLine[2]).err
    /\ NewIdentifier(lastLine[2]).id \in TaskIds(projectTasks)
    /\ TaskWithId(projectTasks, NewIdentifier(lastLine[2]).id).deadline # <<>>

\* The verbs execute has a case for.
Verbs == {"show", "add", "check", "uncheck", "help", "deadline", "today"}

(***************************************************************************)
(* C18: `show`, `today`, `help` and every line with an unknown verb only   *)
(* write to the output sink: the registry and the ID counter are the same  *)
(* after the line as before it, nothing goes to the error channel, and an  *)
(* unknown verb gets the `Unknown command` message that names it.          *)
(***************************************************************************)
C18_RenderingOnlyWrites ==
    [][(/\ ReadsLine
        /\ lastLine' # <<Quit>>
        /\ lastLine'[1] \notin {"add", "check", "uncheck", "deadline"})
       => (/\ projectTasks' = projectTasks
           /\ lastID' = lastID
           /\ assigned' = assigned
           /\ errorsChan' = errorsChan
           /\ pc' = "scan"
           /\ lastLine'[1] \notin Verbs =>
                 out' = <<[kind |-> "message",
                           text |-> "Unknown command \"" \o lastLine'[1]
                                    \o "\".\n"],
                          [kind |-> "prompt", text |-> prompt[1]]>>)]_vars

\* C18, witness: a line with an unknown verb has got its message in a
\* session that holds a task.
C18_Witness ==
    /\ pc = "scan"
    /\ lastLine = <<"frobnicate">>
    /\ Wrote("message", "Unknown command \"frobnicate\".\n")
    /\ TaskCount(projectTasks) > 0

\* The project a header chunk names.
ProjectOf(header) ==
    CHOOSE p \in DOMAIN projectTasks : p \o "\n" = header.text

(***************************************************************************)
(* C19: show prints every project of the registry once, in ascending       *)
(* bytewise order of name whatever the order the map is visited in, and    *)
(* under each project its tasks in the order of its sequence; in every     *)
(* reachable state each project's sequence is strictly increasing in id,   *)
(* which is the order the tasks were added in.                             *)
(***************************************************************************)
C19_ShowIsSorted ==
    /\ \A iter \in IterationOrders(projectTasks) :
          LET s == show(Receiver, iter).out
              h == Headers(s)
          IN  /\ Len(h) = Cardinality(DOMAIN projectTasks)
              /\ {h[k].text : k \in DOMAIN h}
                    = {p \o "\n" : p \in DOMAIN projectTasks}
              /\ \A k \in 1..(Len(h) - 1) :
                    BytesLess(Bytes(ProjectOf(h[k])), Bytes(ProjectOf(h[k + 1])))
              /\ \A k \in DOMAIN h :
                    LET tasks == projectTasks[ProjectOf(h[k])]
                    IN  Section(s, k) =
                            [i \in 1..Len(tasks) |->
                                [kind |-> "task", text |-> TaskLine(tasks[i])]]
    /\ \A p \in DOMAIN projectTasks :
          \A i, j \in DOMAIN projectTasks[p] :
              i < j => projectTasks[p][i].id < projectTasks[p][j].id

\* C19, witness: `show` has just printed two projects, one of them with two
\* tasks.
C19_Witness ==
    /\ pc = "scan"
    /\ lastLine = <<"show">>
    /\ Len(Headers(out)) = 2
    /\ \E k \in 1..2 : Len(Section(out, k)) = 2

(***************************************************************************)
(* C20: in every reachable state the ID counter is the number of `add      *)
(* task` operations that have succeeded, every id in the registry lies in  *)
(* 1..counter and the counter is at least the number of tasks in the       *)
(* registry; the counter never decreases; it is greater than the number    *)
(* of tasks once `add project` has named a project that held tasks, and    *)
(* stays so.                                                               *)
(***************************************************************************)
C20_CounterCountsAddTasks ==
    /\ [](/\ lastID = Len(assigned)
          /\ TaskIds(projectTasks) \subseteq 1..lastID
          /\ lastID >= TaskCount(projectTasks))
    /\ [][lastID' >= lastID]_vars
    /\ [][(/\ ReadsLine
            /\ IsAddProject(lastLine')
            /\ lastLine'[3] \in DOMAIN projectTasks
            /\ projectTasks[lastLine'[3]] # <<>>)
           => lastID' > TaskCount(projectTasks')]_vars
    /\ [][lastID > TaskCount(projectTasks)
           => lastID' > TaskCount(projectTasks')]_vars

\* C20, witness: a task was added after `add project` had emptied a project
\* of two tasks: the counter is 3, the registry holds the one task 3.
C20_Witness ==
    /\ pc = "scan"
    /\ IsAddTask(lastLine)
    /\ lastID = 3
    /\ TaskIds(projectTasks) = {3}
    /\ TaskCount(projectTasks) = 1
====
